---- MODULE Spec2Model ----
(***************************************************************************)
(* Model of PlayWindow.cpp (src/unnamed/part_000): the window manager      *)
(* globals of namespace Play::Window, the manager API, the window          *)
(* procedure and the frame loop of HandleWindows.                          *)
(*                                                                         *)
(* The specifications share the same state and the same operations:        *)
(*   Spec     one run of the program, WinMain -> MainGameEntry ->          *)
(*            HandleWindows (frame loop, one step per statement group)     *)
(*            -> MainGameExit -> GdiplusShutdown, with the clock, the      *)
(*            message queue and the input focus moved by the environment;  *)
(*   FairSpec Spec with the fairness the single thread, the clock and the  *)
(*            compositor give;                                             *)
(*   SpecApi  game code calling the manager API in any order and the OS    *)
(*            delivering window messages to WndProc, without frame timing; *)
(*   SpecMouse   the manager with mouse messages delivered to WndProc;      *)
(*   SpecLoad    the image loaders;                                        *)
(*   SpecPresent game code creating the manager, drawing into the display   *)
(*            buffer and presenting.                                       *)
(*                                                                         *)
(* Arithmetic: performance-counter values are kept modulo ClockMod and     *)
(* differences are taken modulo ClockMod, which is exact while fewer than  *)
(* ClockMod ticks pass between two stored timestamps (Tick's guard).       *)
(* elapsedTime is the rational (ticks * 1000) / Frequency ms, kept as its   *)
(* numerator (the double holding it is exact to 2^-53, far below anything  *)
(* compared here); Present's return value is kept the same way.  The       *)
(* busy-wait compares it with the single-precision 1000.0f /               *)
(* FRAMES_PER_SECOND, as the code does.  The                                *)
(* argument of MainGameUpdate is a single-precision value, kept as         *)
(* [m, s] = m / 2^s with the 24-bit significand m, and rounded as the      *)
(* cast to float and the float division round (to nearest, ties to even).  *)
(***************************************************************************)
EXTENDS Integers, Sequences, FiniteSets

\* ---------------------------------------------------------------- bounds
ClockMod == 5        \* counter values are 0 .. ClockMod-1
MaxQueue == 2        \* most messages waiting in the thread's queue
MaxScale == 2        \* largest pixel scale tried
Frequency == 120     \* QueryPerformanceFrequency: counter ticks per second
MaxStatus == 2       \* codec statuses are 0 .. MaxStatus
MaxImage == 2        \* longest side of an image file, in pixels

\* ------------------------------------------------------ program constants
\* FRAMES_PER_SECOND is used at line 149 and defined in a header that is not
\* part of PlayWindow.cpp: the program is run with each of these whole rates
FrameRates == {30, 60}
NULL == 0
HWND_MAIN == 1       \* the handle CreateWindowW returns on success
MOUSE_PTR == 1       \* address of the game's MouseData object

\* The PixelData objects a game can pass: pointer -> (width, height)
BufferPtrs == {1, 2}
\* and, for presenting, a third one that is 2 by 2
DisplayPtrs == BufferPtrs \cup {3}
BufferWidth(p) == IF p = 1 THEN 1 ELSE 2
BufferHeight(p) == IF p = 2 THEN 1 ELSE 2

ScaleArgs == 0 .. MaxScale
MaxCoord == 2 * MaxScale - 1
Coords == -1 .. MaxCoord
XCoords == {0, MaxCoord}     \* the x coordinates tried: first and last

MouseMessages == {"WM_LBUTTONDOWN", "WM_LBUTTONUP", "WM_RBUTTONDOWN",
                  "WM_RBUTTONUP", "WM_MOUSEMOVE", "WM_MOUSELEAVE"}
Messages == {"WM_PAINT", "WM_DESTROY", "WM_OTHER"} \cup MouseMessages

Msg(message, wx, wy) == [message |-> message, wx |-> wx, wy |-> wy]
NoMsg == Msg("none", 0, 0)

\* the messages the OS posts to the thread's queue while the frame loop runs
\* (TrackMouseEvent is never called, so WM_MOUSELEAVE is never posted)
PostedMsgs == {Msg("WM_PAINT", 0, 0), Msg("WM_DESTROY", 0, 0)}
\* the messages delivered to WndProc by Deliver and DeliverMouse
WindowMsgs == {Msg(m, 0, 0) : m \in Messages \ MouseMessages}
DeliveredMsgs == {Msg(m, 0, 0) : m \in Messages \ {"WM_MOUSEMOVE"}}
                 \cup {Msg("WM_MOUSEMOVE", x, y) : x \in XCoords, y \in Coords}

VARIABLES
    \* globals of PlayWindow.cpp
    g_pGDIToken, m_scale, m_pPlayBuffer, m_pMouseData, m_hWindow, m_bCreated,
    mouse,          \* the MouseData object behind MOUSE_PTR
    \* HandleWindows
    pc, msg, quit, now, lastDrawTime, elapsedTime,
    \* environment
    clock, queue, quitPosted, focus, debugBuild,
    FRAMES_PER_SECOND,      \* the build's target frame rate
    \* observation of the last manager call
    call, ret, accessed, bound,
    \* observation of the frame loop
    updatedThisIter, updateArg, sinceUpdate, iterPending,
    sinceStamp, sinceRead, afterSkip, exitCalls, gdiShutdown,
    \* the image loaders: the caller's outputs and the last call
    width, height, destImage, loadRet, loadCall,
    \* pixel storage of the PixelData objects, and what the last
    \* StretchDIBits drew, on which device context
    pixels, surface

mgrVars == <<m_scale, m_pPlayBuffer, m_pMouseData, m_bCreated>>
loopVars == <<msg, quit, now, lastDrawTime, elapsedTime>>
envVars == <<clock, queue, focus, debugBuild, FRAMES_PER_SECOND>>
callVars == <<call, ret, accessed, bound>>
obsVars == <<updatedThisIter, updateArg, sinceUpdate, iterPending,
             sinceStamp, sinceRead, afterSkip, exitCalls, gdiShutdown>>
loadVars == <<width, height, destImage, loadRet, loadCall>>
gfxVars == <<pixels, surface>>
vars == <<g_pGDIToken, m_scale, m_pPlayBuffer, m_pMouseData, m_hWindow,
          m_bCreated, mouse, pc, msg, quit, now, lastDrawTime, elapsedTime,
          clock, queue, quitPosted, focus, debugBuild, FRAMES_PER_SECOND,
          call, ret, accessed,
          bound,
          updatedThisIter, updateArg, sinceUpdate, iterPending,
          sinceStamp, sinceRead, afterSkip, exitCalls, gdiShutdown,
          width, height, destImage, loadRet, loadCall, pixels, surface>>

\* ------------------------------------------------------------- helpers

\* C++ integer division truncates toward zero
CDiv(a, b) == IF a >= 0 THEN a \div b ELSE -((-a) \div b)

\* (after - before) * 1000.0 / frequency for two counter values, as the
\* numerator of the fraction over Frequency: elapsedTime of HandleWindows
\* and the value Present returns
ElapsedTime(n, last) == ((n - last) % ClockMod) * 1000

\* Single precision.  A float is [m, s], standing for m / 2^s, with
\* 2^23 <= m < 2^24, or m = 0 for zero.  (Values here are far from the
\* ends of the exponent range and below 2^23.)
FloatZero == [m |-> 0, s |-> 0]
Hidden == 8388608       \* 2^23, the leading bit of a 24-bit significand

\* q + r/den with r < den, shifted left until q has 24 bits: the
\* truncated significand, what is left of the fraction, and the shift
RECURSIVE Normalise(_, _, _, _)
Normalise(q, r, den, s) ==
    IF q >= Hidden
    THEN [q |-> q, r |-> r, s |-> s]
    ELSE IF 2 * r >= den
         THEN Normalise(2 * q + 1, 2 * r - den, den, s + 1)
         ELSE Normalise(2 * q, 2 * r, den, s + 1)

\* num / den rounded to the nearest float, ties to even
RoundToFloat(num, den) ==
    IF num = 0 THEN FloatZero
    ELSE LET n == Normalise(num \div den, num % den, den, 0)
             up == 2 * n.r > den \/ (2 * n.r = den /\ n.q % 2 = 1)
             m == IF up THEN n.q + 1 ELSE n.q
         IN  IF m = 2 * Hidden THEN [m |-> Hidden, s |-> n.s - 1]
                               ELSE [m |-> m, s |-> n.s]

\* static_cast<float>(x) of the double x = num / den
ToFloat(num, den) == RoundToFloat(num, den)

\* x / d in single precision, d a whole number held exactly by a float
FloatDiv(x, d) ==
    LET y == RoundToFloat(x.m, d) IN [m |-> y.m, s |-> y.s + x.s]

\* PLAY_ASSERT / PLAY_ASSERT_MSG: the assertion passes iff its condition
\* holds; a failed assertion is fatal (the process stops at the assertion).
PLAY_ASSERT(x) == x

Call(op, buf, scale, ptr, m) ==
    [op |-> op, buf |-> buf, scale |-> scale, ptr |-> ptr, msg |-> m,
     created |-> m_bCreated]
NoCall == [op |-> "none", buf |-> NULL, scale |-> 0, ptr |-> NULL,
           msg |-> NoMsg, created |-> FALSE]

\* a failed assertion: the process stops, nothing has been read or written
Abort ==
    /\ pc' = "Aborted"
    /\ ret' = 0
    /\ accessed' = {}
    /\ UNCHANGED <<mgrVars, m_hWindow, mouse, quitPosted>>

\* a PixelData with no storage yet
NoImage == [width |-> 0, height |-> 0, pPixels |-> <<>>]
NoLoad == [fn |-> "none", status |-> 0, width |-> 0, height |-> 0,
           destImage |-> NoImage]

\* the pixels of a display buffer when the game hands it over: row-major
\* from pPixels[0], every pixel a different value
InitialPixels(p) == [i \in 1 .. BufferWidth(p) * BufferHeight(p) |-> i]

\* where pixel (x, y) of buffer p is stored, x counted from the left and y
\* from the bottom (positions are offsets from the bottom left, as
\* DrawRect( bottomLeft, topRight ) and the mouse position of WndProc have
\* them), the top row of the image first in memory (the order in which
\* LoadPNGImage stores an image): index into pPixels, counted from 1
PixelIndex(p, x, y) == (BufferHeight(p) - 1 - y) * BufferWidth(p) + x + 1

\* nothing drawn yet
NoSurface == [dc |-> NULL, w |-> 0, h |-> 0, px |-> <<>>]

Init ==
    /\ g_pGDIToken = 0
    /\ m_scale = 0
    /\ m_pPlayBuffer = NULL
    /\ m_pMouseData = NULL
    /\ m_hWindow = NULL
    /\ m_bCreated = FALSE
    /\ mouse = [left |-> FALSE, right |-> FALSE, x |-> 0, y |-> 0]
    /\ pc = "WinMain"
    /\ msg = NoMsg
    /\ quit = FALSE
    /\ now = 0
    /\ lastDrawTime = 0
    /\ elapsedTime = 0
    /\ clock = 0
    /\ queue = <<>>
    /\ quitPosted = FALSE
    /\ focus = NULL
    /\ debugBuild \in BOOLEAN
    /\ FRAMES_PER_SECOND \in FrameRates
    /\ call = NoCall
    /\ ret = 0
    /\ accessed = {}
    /\ bound = [buf |-> NULL, scale |-> 0]
    /\ updatedThisIter = 0
    /\ updateArg = FloatZero
    /\ sinceUpdate = -1
    /\ iterPending = 0
    /\ sinceStamp = 0
    /\ sinceRead = 0
    /\ afterSkip = FALSE
    /\ exitCalls = 0
    /\ gdiShutdown = FALSE
    /\ width = 0
    /\ height = 0
    /\ destImage = NoImage
    /\ loadRet = 0
    /\ loadCall = NoLoad
    /\ pixels = [p \in DisplayPtrs |-> InitialPixels(p)]
    /\ surface = NoSurface

\* ------------------------------------------------- the manager API

\* variant: the scale assertion lets zero through
CreateManager_zeroScale(pDisplayBuffer, nScale, cont) ==
    /\ call' = Call("CreateManager", pDisplayBuffer, nScale, NULL, NoMsg)
    /\ IF PLAY_ASSERT(pDisplayBuffer # NULL) /\ PLAY_ASSERT(nScale >= 0)
       THEN /\ m_pPlayBuffer' = pDisplayBuffer
            /\ m_scale' = nScale
            /\ m_bCreated' = TRUE
            /\ ret' = 1
            /\ accessed' = {"m_pPlayBuffer", "m_scale", "m_bCreated"}
            /\ pc' = cont
            /\ UNCHANGED <<m_pMouseData, m_hWindow, mouse, quitPosted>>
       ELSE Abort

\* bool CreateManager( PixelData* pDisplayBuffer, int nScale )
CreateManager(pDisplayBuffer, nScale, cont) ==
    /\ call' = Call("CreateManager", pDisplayBuffer, nScale, NULL, NoMsg)
    /\ IF PLAY_ASSERT(pDisplayBuffer # NULL) /\ PLAY_ASSERT(nScale > 0)
       THEN /\ m_pPlayBuffer' = pDisplayBuffer
            /\ m_scale' = nScale
            /\ m_bCreated' = TRUE
            /\ ret' = 1
            /\ accessed' = {"m_pPlayBuffer", "m_scale", "m_bCreated"}
            /\ pc' = cont
            /\ UNCHANGED <<m_pMouseData, m_hWindow, mouse, quitPosted>>
       ELSE Abort

\* bool DestroyManager( void )
DestroyManager(cont) ==
    /\ call' = Call("DestroyManager", NULL, 0, NULL, NoMsg)
    /\ IF PLAY_ASSERT(m_bCreated)
       THEN /\ m_bCreated' = FALSE
            /\ ret' = 1
            /\ accessed' = {"m_bCreated"}
            /\ pc' = cont
            /\ UNCHANGED <<m_scale, m_pPlayBuffer, m_pMouseData, m_hWindow,
                           mouse, quitPosted>>
       ELSE Abort

\* variant: ASSERT_WINDOW left out
RegisterMouse_noAssert(pMouseData, cont) ==
    /\ call' = Call("RegisterMouse", NULL, 0, pMouseData, NoMsg)
    /\ m_pMouseData' = pMouseData
    /\ ret' = 0
    /\ accessed' = {"m_pMouseData"}
    /\ pc' = cont
    /\ UNCHANGED <<m_scale, m_pPlayBuffer, m_bCreated, m_hWindow, mouse,
                   quitPosted>>

\* void RegisterMouse( MouseData* pMouseData )
RegisterMouse(pMouseData, cont) ==
    /\ call' = Call("RegisterMouse", NULL, 0, pMouseData, NoMsg)
    /\ IF PLAY_ASSERT(m_bCreated)
       THEN /\ m_pMouseData' = pMouseData
            /\ ret' = 0
            /\ accessed' = {"m_pMouseData"}
            /\ pc' = cont
            /\ UNCHANGED <<m_scale, m_pPlayBuffer, m_bCreated, m_hWindow,
                           mouse, quitPosted>>
       ELSE Abort

\* int GetWidth()
GetWidth(cont) ==
    /\ call' = Call("GetWidth", NULL, 0, NULL, NoMsg)
    /\ IF PLAY_ASSERT(m_bCreated)
       THEN /\ ret' = BufferWidth(m_pPlayBuffer)
            /\ accessed' = {"m_pPlayBuffer"}
            /\ pc' = cont
            /\ UNCHANGED <<mgrVars, m_hWindow, mouse, quitPosted>>
       ELSE Abort

\* int GetHeight()
GetHeight(cont) ==
    /\ call' = Call("GetHeight", NULL, 0, NULL, NoMsg)
    /\ IF PLAY_ASSERT(m_bCreated)
       THEN /\ ret' = BufferHeight(m_pPlayBuffer)
            /\ accessed' = {"m_pPlayBuffer"}
            /\ pc' = cont
            /\ UNCHANGED <<mgrVars, m_hWindow, mouse, quitPosted>>
       ELSE Abort

\* int GetScale()
GetScale(cont) ==
    /\ call' = Call("GetScale", NULL, 0, NULL, NoMsg)
    /\ IF PLAY_ASSERT(m_bCreated)
       THEN /\ ret' = m_scale
            /\ accessed' = {"m_scale"}
            /\ pc' = cont
            /\ UNCHANGED <<mgrVars, m_hWindow, mouse, quitPosted>>
       ELSE Abort

\* StretchDIBits(hDC, 0, 0, wDst, hDst, xSrc, ySrc, wSrc, hSrc, bits, info,
\* DIB_RGB_COLORS, SRCCOPY) for a DIB whose header has biHeight > 0, drawn
\* to a destination of positive extent: the contents of the destination
\* rectangle afterwards.  hDC is named by the handle given to GetDC: the
\* window's, or NULL for the screen (GetDC(NULL)).
\* StretchDIBits belongs to GDI, not to the program; the three rules below
\* are GDI's documented behaviour, which the comments of Present rely on
\* ("Bitmaps store pixel data upside down", "GDI only implements up
\* scaling using simple pixel duplication"):
\*  - biHeight > 0 is a bottom-up DIB: the last row in memory is the top
\*    row of the image, and ySrc is measured from the bottom of the image;
\*  - a negative hSrc names the rows between ySrc + hSrc + 1 and ySrc
\*    (GDI adds one to both ends when an extent is negative) and mirrors
\*    the copy vertically;
\*  - stretching by a whole factor duplicates pixels.
\* A destination pixel that maps outside the DIB is left 0.
SrcY(biHeight, ySrc, hSrc) == biHeight - ySrc - hSrc
SrcTop(biHeight, ySrc, hSrc) ==
    IF hSrc < 0 THEN SrcY(biHeight, ySrc, hSrc) + hSrc + 1
                ELSE SrcY(biHeight, ySrc, hSrc)
SrcBottom(biHeight, ySrc, hSrc) ==
    IF hSrc < 0 THEN SrcY(biHeight, ySrc, hSrc) + 1
                ELSE SrcY(biHeight, ySrc, hSrc) + hSrc

StretchDIBits(hDC, wDst, hDst, xSrc, ySrc, wSrc, hSrc, bits, biWidth, biHeight) ==
    LET top == SrcTop(biHeight, ySrc, hSrc)
        bottom == SrcBottom(biHeight, ySrc, hSrc)
        ImageRow(Y) == IF hSrc < 0
                       THEN bottom - 1 - (Y * (bottom - top)) \div hDst
                       ELSE top + (Y * (bottom - top)) \div hDst
        MemRow(Y) == biHeight - 1 - ImageRow(Y)
        Col(X) == xSrc + (X * wSrc) \div wDst
    IN  [dc |-> hDC, w |-> wDst, h |-> hDst,
         px |-> [c \in (0 .. wDst - 1) \X (0 .. hDst - 1) |->
                   IF MemRow(c[2]) \in 0 .. biHeight - 1
                      /\ Col(c[1]) \in 0 .. biWidth - 1
                   THEN bits[MemRow(c[2]) * biWidth + Col(c[1]) + 1]
                   ELSE 0]]

\* variant of Present: the source rectangle is passed as it is, without
\* the flip
Present_noFlip(cont) ==
    /\ call' = Call("Present", NULL, 0, NULL, NoMsg)
    /\ IF PLAY_ASSERT(m_bCreated)
       THEN /\ \E ticks \in 0 .. ClockMod - 1 :
                 /\ sinceRead + ticks <= ClockMod - 1
                 /\ clock' = (clock + ticks) % ClockMod
                 /\ sinceRead' = sinceRead + ticks
            /\ ret' = ElapsedTime(clock', clock)
            /\ accessed' = {"m_pPlayBuffer", "m_scale", "m_hWindow"}
            /\ surface' = StretchDIBits(
                              m_hWindow,
                              BufferWidth(m_pPlayBuffer) * m_scale,
                              BufferHeight(m_pPlayBuffer) * m_scale,
                              0, 0,
                              BufferWidth(m_pPlayBuffer),
                              BufferHeight(m_pPlayBuffer),
                              pixels[m_pPlayBuffer],
                              BufferWidth(m_pPlayBuffer),
                              BufferHeight(m_pPlayBuffer))
            /\ pc' = cont
            /\ UNCHANGED <<mgrVars, m_hWindow, mouse, quitPosted>>
       ELSE Abort /\ UNCHANGED <<surface, clock, sinceRead>>

\* double Present( void ): blits the display buffer and returns how long
\* that took.
\* Present reads the counter before and after the copy and returns the
\* difference in ms; `ticks` is how far the counter moves meanwhile (the
\* observer sinceRead counts them, and caps them below ClockMod).
Present(cont) ==
    /\ call' = Call("Present", NULL, 0, NULL, NoMsg)
    /\ IF PLAY_ASSERT(m_bCreated)
       THEN /\ \E ticks \in 0 .. ClockMod - 1 :
                 /\ sinceRead + ticks <= ClockMod - 1
                 /\ clock' = (clock + ticks) % ClockMod
                 /\ sinceRead' = sinceRead + ticks
            /\ ret' = ElapsedTime(clock', clock)
            /\ accessed' = {"m_pPlayBuffer", "m_scale", "m_hWindow"}
            /\ surface' = StretchDIBits(
                              m_hWindow,
                              BufferWidth(m_pPlayBuffer) * m_scale,
                              BufferHeight(m_pPlayBuffer) * m_scale,
                              0, BufferHeight(m_pPlayBuffer) + 1,
                              BufferWidth(m_pPlayBuffer),
                              -BufferHeight(m_pPlayBuffer),
                              pixels[m_pPlayBuffer],
                              BufferWidth(m_pPlayBuffer),
                              BufferHeight(m_pPlayBuffer))
            /\ pc' = cont
            /\ UNCHANGED <<mgrVars, m_hWindow, mouse, quitPosted>>
       ELSE Abort /\ UNCHANGED <<surface, clock, sinceRead>>

\* the position WM_MOUSEMOVE stores
MouseMoveX(wx) == CDiv(wx, m_scale)
MouseMoveY(wy) == BufferHeight(m_pPlayBuffer) - CDiv(wy, m_scale)

\* LRESULT CALLBACK WndProc( HWND hWnd, UINT message, WPARAM, LPARAM )
\* the messages the switch of WndProc has a case for
HandledMessages == {"WM_PAINT", "WM_DESTROY"} \cup MouseMessages

\* what DefWindowProc returns depends on the message: 0 for most, a
\* non-zero result for some (WM_NCHITTEST, WM_NCCREATE, WM_ERASEBKGND)
DefWindowProcResults == {0, 1}

WndProc(m, cont) ==
    /\ call' = Call("WndProc", NULL, 0, NULL, m)
    /\ IF ~PLAY_ASSERT(m_bCreated)
       THEN Abort
       ELSE
         \* every handled message breaks out of the switch to return 0;
         \* any other message returns what DefWindowProc returns
         /\ IF m.message \in HandledMessages
            THEN ret' = 0
            ELSE ret' \in DefWindowProcResults
         /\ UNCHANGED <<mgrVars, m_hWindow>>
         /\ CASE m.message = "WM_PAINT" ->
                   /\ accessed' = {}
                   /\ pc' = cont
                   /\ UNCHANGED <<mouse, quitPosted>>
              [] m.message = "WM_DESTROY" ->
                   \* PostQuitMessage(0)
                   /\ quitPosted' = TRUE
                   /\ accessed' = {}
                   /\ pc' = cont
                   /\ UNCHANGED mouse
              [] m.message \in {"WM_LBUTTONDOWN", "WM_LBUTTONUP"} ->
                   /\ accessed' = {"m_pMouseData"}
                   /\ pc' = cont
                   /\ mouse' = IF m_pMouseData # NULL
                               THEN [mouse EXCEPT
                                       !.left = (m.message = "WM_LBUTTONDOWN")]
                               ELSE mouse
                   /\ UNCHANGED quitPosted
              [] m.message \in {"WM_RBUTTONDOWN", "WM_RBUTTONUP"} ->
                   /\ accessed' = {"m_pMouseData"}
                   /\ pc' = cont
                   /\ mouse' = IF m_pMouseData # NULL
                               THEN [mouse EXCEPT
                                       !.right = (m.message = "WM_RBUTTONDOWN")]
                               ELSE mouse
                   /\ UNCHANGED quitPosted
              [] m.message = "WM_MOUSEMOVE" ->
                   /\ pc' = cont
                   /\ IF m_pMouseData # NULL
                      THEN /\ mouse' = [mouse EXCEPT !.x = MouseMoveX(m.wx),
                                                     !.y = MouseMoveY(m.wy)]
                           /\ accessed' = {"m_pMouseData", "m_scale",
                                           "m_pPlayBuffer"}
                      ELSE /\ UNCHANGED mouse
                           /\ accessed' = {"m_pMouseData"}
                   /\ UNCHANGED quitPosted
              [] m.message = "WM_MOUSELEAVE" ->
                   \* no null test: with no MouseData registered the two
                   \* stores go through a null pointer (undefined behaviour:
                   \* the process faults, or the stores are dropped)
                   /\ accessed' = {"m_pMouseData"}
                   /\ UNCHANGED quitPosted
                   /\ IF m_pMouseData # NULL
                      THEN /\ mouse' = [mouse EXCEPT !.x = -1, !.y = -1]
                           /\ pc' = cont
                      ELSE /\ UNCHANGED mouse
                           /\ pc' \in {"Crashed", cont}
              [] OTHER ->
                   \* DefWindowProc
                   /\ accessed' = {}
                   /\ pc' = cont
                   /\ UNCHANGED <<mouse, quitPosted>>

\* observation: the arguments of the latest CreateManager call that passed
\* a display buffer and a positive scale
Bound(pDisplayBuffer, nScale) ==
    IF pDisplayBuffer # NULL /\ nScale > 0
    THEN [buf |-> pDisplayBuffer, scale |-> nScale]
    ELSE bound

\* ------------------------------------------------------------ WinMain

restOfProgram == <<loopVars, envVars, obsVars, quitPosted>>

\* WinMain: GdiplusStartup, PLAY_ASSERT(Gdiplus::Ok == gdiStatus), token kept
WinMain ==
    /\ pc = "WinMain"
    /\ \E gdiStatusOk \in BOOLEAN :
         IF PLAY_ASSERT(gdiStatusOk)
         THEN g_pGDIToken' = 1 /\ pc' = "MainGameEntry"
         ELSE g_pGDIToken' = g_pGDIToken /\ pc' = "Aborted"
    /\ UNCHANGED <<mgrVars, m_hWindow, mouse, callVars, restOfProgram>>
    /\ UNCHANGED <<loadVars, gfxVars>>

\* MainGameEntry( argc, argv ) is the game's code: it creates the manager,
\* with good or bad arguments, or returns without doing so
EntryCreateManager ==
    /\ pc = "MainGameEntry"
    /\ \E pDisplayBuffer \in {NULL, 1}, nScale \in {0, MaxScale} :
         /\ CreateManager(pDisplayBuffer, nScale, pc)
         /\ bound' = Bound(pDisplayBuffer, nScale)
    /\ UNCHANGED <<g_pGDIToken, restOfProgram>>
    /\ UNCHANGED <<loadVars, gfxVars>>

\* MainGameEntry returns: WinMain calls Play::Window::HandleWindows
EntryReturn ==
    /\ pc = "MainGameEntry"
    /\ pc' = "HandleWindows"
    /\ UNCHANGED <<g_pGDIToken, mgrVars, m_hWindow, mouse, callVars,
                   restOfProgram>>
    /\ UNCHANGED <<loadVars, gfxVars>>

\* ------------------------------------------------------- HandleWindows

RunningPcs == {"LoopTest", "PeekMessage", "BusyWait", "Update", "Store",
               "DwmFlush"}

\* HandleWindows up to the loop: ASSERT_WINDOW, window class and window
\* creation, the first QueryPerformanceCounter(&lastDrawTime)
HandleWindowsStart ==
    /\ pc = "HandleWindows"
    /\ call' = Call("HandleWindows", NULL, 0, NULL, NoMsg)
    /\ bound' = bound
    /\ IF ~PLAY_ASSERT(m_bCreated)
       THEN /\ Abort
            /\ UNCHANGED <<loopVars, sinceStamp, sinceRead>>
       ELSE \E hWnd \in {NULL, HWND_MAIN} :
              /\ UNCHANGED <<mgrVars, mouse, quitPosted>>
              /\ IF hWnd = NULL
                 THEN \* if (!hWnd) return FALSE;
                      /\ pc' = "Returned"
                      /\ ret' = 0
                      /\ accessed' = {"m_pPlayBuffer", "m_scale"}
                      /\ UNCHANGED <<m_hWindow, loopVars, sinceStamp,
                                     sinceRead>>
                 ELSE /\ m_hWindow' = hWnd
                      /\ msg' = NoMsg
                      /\ quit' = FALSE
                      /\ lastDrawTime' = clock
                      /\ pc' = "LoopTest"
                      /\ ret' = 0
                      /\ accessed' = {"m_pPlayBuffer", "m_scale", "m_hWindow"}
                      /\ sinceStamp' = 0
                      /\ sinceRead' = 0
                      /\ UNCHANGED <<now, elapsedTime>>
    /\ UNCHANGED <<g_pGDIToken, envVars, updatedThisIter, updateArg,
                   sinceUpdate, iterPending, afterSkip, exitCalls,
                   gdiShutdown>>
    /\ UNCHANGED <<loadVars, gfxVars>>

\* while (!quit)
\* variant: the loop condition ignores the flag
ContinueLoop_ignoresQuit(q) == TRUE

ContinueLoop(q) == ~q

LoopTest ==
    /\ pc = "LoopTest"
    /\ IF ContinueLoop(quit)
       THEN /\ pc' = "PeekMessage"
            /\ updatedThisIter' = 0
            /\ updateArg' = FloatZero
            /\ iterPending' = Len(queue)
       ELSE /\ pc' = "MainGameExit"
            /\ UNCHANGED <<updatedThisIter, updateArg, iterPending>>
    /\ UNCHANGED <<g_pGDIToken, mgrVars, m_hWindow, mouse, loopVars, envVars,
                   quitPosted, callVars, sinceUpdate, sinceStamp, sinceRead,
                   afterSkip, exitCalls, gdiShutdown>>
    /\ UNCHANGED <<loadVars, gfxVars>>

\* PeekMessage(&msg, nullptr, 0, 0, PM_REMOVE): the message retrieved, NoMsg
\* if there is none.  The queue hands out its posted messages first and
\* WM_QUIT, requested by PostQuitMessage, once no posted message is left.
\* variant: the poll is filtered to the window's own messages, so the thread
\* message WM_QUIT is never retrieved
PeekMessage_windowOnly(q, posted) ==
    IF q # <<>> THEN Head(q) ELSE NoMsg

PeekMessage(q, posted) ==
    IF q # <<>> THEN Head(q)
    ELSE IF posted THEN Msg("WM_QUIT", 0, 0)
    ELSE NoMsg

\* if (PeekMessage(...)) { if (msg.message == WM_QUIT) break;
\* TranslateMessage(&msg); DispatchMessage(&msg); }
\* at most one message is retrieved in an iteration
PeekMessageStep ==
    /\ pc = "PeekMessage"
    /\ LET r == PeekMessage(queue, quitPosted) IN
         /\ queue' = IF queue # <<>> THEN Tail(queue) ELSE queue
         /\ iterPending' = IF queue # <<>> /\ iterPending > 0
                           THEN iterPending - 1 ELSE iterPending
         /\ IF r = NoMsg
            THEN /\ pc' = "BusyWait"
                 /\ UNCHANGED <<msg, quitPosted, mgrVars, m_hWindow, mouse,
                                callVars>>
            ELSE /\ msg' = r
                 /\ IF r.message = "WM_QUIT"
                    THEN /\ quitPosted' = FALSE
                         /\ pc' = "MainGameExit"
                         /\ UNCHANGED <<mgrVars, m_hWindow, mouse, callVars>>
                    ELSE /\ WndProc(r, "BusyWait")
                         /\ bound' = bound
    /\ UNCHANGED <<g_pGDIToken, quit, now, lastDrawTime, elapsedTime, clock,
                   focus, debugBuild, FRAMES_PER_SECOND,
                   updatedThisIter, updateArg, sinceUpdate,
                   sinceStamp, sinceRead, afterSkip, exitCalls, gdiShutdown>>
    /\ UNCHANGED <<loadVars, gfxVars>>

\* 1000.0f / FRAMES_PER_SECOND: a single-precision quotient, which is
\* 8738133 / 2^19 = 16.66666603 ms for 60 and 8738133 / 2^18 for 30, both
\* below the exact interval (tabulated over the rates)
FrameIntervals == [r \in FrameRates |-> RoundToFloat(1000, r)]

\* the busy-wait goes round while (elapsedTime < 1000.0f / FRAMES_PER_SECOND):
\* the double e / Frequency ms against the float quotient widened to double,
\* e / Frequency < m / 2^s, which for whole e is e <= (m * Frequency - 1) div 2^s
KeepWaiting(e) == LET t == FrameIntervals[FRAMES_PER_SECOND] IN e <= (t.m * Frequency - 1) \div (2 ^ t.s)

\* do { QueryPerformanceCounter(&now); elapsedTime = ... } while (...)
\* one round of the busy-wait
BusyWait ==
    /\ pc = "BusyWait"
    /\ now' = clock
    /\ elapsedTime' = ElapsedTime(clock, lastDrawTime)
    /\ pc' = IF KeepWaiting(elapsedTime') THEN "BusyWait" ELSE "Update"
    /\ sinceStamp' = sinceStamp + sinceRead
    /\ sinceRead' = 0
    /\ UNCHANGED <<g_pGDIToken, mgrVars, m_hWindow, mouse, msg, quit,
                   lastDrawTime, envVars, quitPosted, callVars,
                   updatedThisIter, updateArg, sinceUpdate, iterPending,
                   afterSkip, exitCalls, gdiShutdown>>
    /\ UNCHANGED <<loadVars, gfxVars>>

\* #ifndef _DEBUG  if (GetFocus() == m_hWindow)  #endif
UpdateAllowed == debugBuild \/ focus = m_hWindow

\* static_cast<float>(elapsedTime) / 1000.0f: the milliseconds
\* e / Frequency rounded to single precision, then divided by 1000 in
\* single precision
\* (tabulated over the values elapsedTime can have)
ElapsedTimes == {ElapsedTime(n, 0) : n \in 0 .. ClockMod - 1}
UpdateArguments ==
    [e \in ElapsedTimes |-> FloatDiv(ToFloat(e, Frequency), 1000)]
UpdateArgument(e) == UpdateArguments[e]

\* quit = MainGameUpdate( elapsed seconds ), or the call is skipped
Update ==
    /\ pc = "Update"
    /\ pc' = "Store"
    /\ IF UpdateAllowed
       THEN /\ \E shouldQuit \in BOOLEAN : quit' = shouldQuit
            /\ updatedThisIter' = updatedThisIter + 1
            /\ updateArg' = UpdateArgument(elapsedTime)
            /\ sinceUpdate' = 0
       ELSE UNCHANGED <<quit, updatedThisIter, updateArg, sinceUpdate>>
    /\ UNCHANGED <<g_pGDIToken, mgrVars, m_hWindow, mouse, msg, now,
                   lastDrawTime, elapsedTime, envVars, quitPosted, callVars,
                   iterPending, sinceStamp, sinceRead, afterSkip, exitCalls,
                   gdiShutdown>>
    /\ UNCHANGED <<loadVars, gfxVars>>

\* variant: the timestamp is stored only in iterations that ran the update
Store_onlyAfterUpdate ==
    /\ pc = "Store"
    /\ lastDrawTime' = IF updatedThisIter > 0 THEN now ELSE lastDrawTime
    /\ pc' = "DwmFlush"
    /\ sinceStamp' = 0
    /\ afterSkip' = (updatedThisIter = 0)
    /\ UNCHANGED <<g_pGDIToken, mgrVars, m_hWindow, mouse, msg, quit, now,
                   elapsedTime, envVars, quitPosted, callVars,
                   updatedThisIter, updateArg, sinceUpdate, iterPending,
                   sinceRead, exitCalls, gdiShutdown>>
    /\ UNCHANGED <<loadVars, gfxVars>>

\* variant: the loop goes round without the compositor wait
Store_noFlush ==
    /\ pc = "Store"
    /\ lastDrawTime' = now
    /\ pc' = "LoopTest"
    /\ sinceStamp' = 0
    /\ afterSkip' = (updatedThisIter = 0)
    /\ UNCHANGED <<g_pGDIToken, mgrVars, m_hWindow, mouse, msg, quit, now,
                   elapsedTime, envVars, quitPosted, callVars,
                   updatedThisIter, updateArg, sinceUpdate, iterPending,
                   sinceRead, exitCalls, gdiShutdown>>
    /\ UNCHANGED <<loadVars, gfxVars>>

\* lastDrawTime = now;
Store ==
    /\ pc = "Store"
    /\ lastDrawTime' = now
    /\ pc' = "DwmFlush"
    /\ sinceStamp' = 0
    /\ afterSkip' = (updatedThisIter = 0)
    /\ UNCHANGED <<g_pGDIToken, mgrVars, m_hWindow, mouse, msg, quit, now,
                   elapsedTime, envVars, quitPosted, callVars,
                   updatedThisIter, updateArg, sinceUpdate, iterPending,
                   sinceRead, exitCalls, gdiShutdown>>
    /\ UNCHANGED <<loadVars, gfxVars>>

\* DwmFlush(); returns when the compositor has finished
DwmFlush ==
    /\ pc = "DwmFlush"
    /\ pc' = "LoopTest"
    /\ sinceUpdate' = IF sinceUpdate = 0 THEN 1 ELSE sinceUpdate
    /\ UNCHANGED <<g_pGDIToken, mgrVars, m_hWindow, mouse, loopVars, envVars,
                   quitPosted, callVars, updatedThisIter, updateArg,
                   iterPending, sinceStamp, sinceRead, afterSkip, exitCalls,
                   gdiShutdown>>
    /\ UNCHANGED <<loadVars, gfxVars>>

\* MainGameExit();
MainGameExit ==
    /\ pc = "MainGameExit"
    /\ exitCalls' = exitCalls + 1
    /\ pc' = "GdiplusShutdown"
    /\ UNCHANGED <<g_pGDIToken, mgrVars, m_hWindow, mouse, loopVars, envVars,
                   quitPosted, callVars, updatedThisIter, updateArg,
                   sinceUpdate, iterPending, sinceStamp, sinceRead, afterSkip,
                   gdiShutdown>>
    /\ UNCHANGED <<loadVars, gfxVars>>

\* PLAY_ASSERT(g_pGDIToken); Gdiplus::GdiplusShutdown(g_pGDIToken); return
GdiplusShutdown ==
    /\ pc = "GdiplusShutdown"
    /\ IF PLAY_ASSERT(g_pGDIToken # 0)
       THEN gdiShutdown' = TRUE /\ pc' = "Returned"
       ELSE gdiShutdown' = gdiShutdown /\ pc' = "Aborted"
    /\ UNCHANGED <<g_pGDIToken, mgrVars, m_hWindow, mouse, loopVars, envVars,
                   quitPosted, callVars, updatedThisIter, updateArg,
                   sinceUpdate, iterPending, sinceStamp, sinceRead, afterSkip,
                   exitCalls>>
    /\ UNCHANGED <<loadVars, gfxVars>>

\* ---------------------------------------------------------- environment

\* the performance counter advances by one tick
Tick ==
    /\ pc \in RunningPcs
    /\ (clock - lastDrawTime) % ClockMod < ClockMod - 1
    /\ clock' = (clock + 1) % ClockMod
    /\ sinceRead' = sinceRead + 1
    /\ UNCHANGED <<g_pGDIToken, mgrVars, m_hWindow, mouse, pc, loopVars,
                   queue, focus, debugBuild, FRAMES_PER_SECOND, quitPosted,
                   callVars,
                   updatedThisIter, updateArg, sinceUpdate, iterPending,
                   sinceStamp, afterSkip, exitCalls, gdiShutdown>>
    /\ UNCHANGED <<loadVars, gfxVars>>

\* the OS posts a message for the window; a destroyed window gets none
Post ==
    /\ pc \in RunningPcs
    /\ ~quitPosted
    /\ Len(queue) < MaxQueue
    /\ \E m \in PostedMsgs : queue' = Append(queue, m)
    /\ UNCHANGED <<g_pGDIToken, mgrVars, m_hWindow, mouse, pc, loopVars,
                   clock, focus, debugBuild, FRAMES_PER_SECOND, quitPosted,
                   callVars, obsVars>>
    /\ UNCHANGED <<loadVars, gfxVars>>

\* the input focus moves to or away from the window
FocusChange ==
    /\ pc \in RunningPcs
    /\ focus' = IF focus = m_hWindow THEN NULL ELSE m_hWindow
    /\ UNCHANGED <<g_pGDIToken, mgrVars, m_hWindow, mouse, pc, loopVars,
                   clock, queue, debugBuild, FRAMES_PER_SECOND, quitPosted,
                   callVars, obsVars>>
    /\ UNCHANGED <<loadVars, gfxVars>>

Program ==
    \/ WinMain \/ EntryCreateManager \/ EntryReturn
    \/ HandleWindowsStart \/ LoopTest \/ PeekMessageStep \/ BusyWait
    \/ Update \/ Store \/ DwmFlush \/ MainGameExit \/ GdiplusShutdown

Next ==
    \/ WinMain \/ EntryCreateManager \/ EntryReturn
    \/ HandleWindowsStart \/ LoopTest \/ PeekMessageStep \/ BusyWait
    \/ Update \/ Store \/ DwmFlush \/ MainGameExit \/ GdiplusShutdown
    \/ Tick \/ Post \/ FocusChange

Spec == Init /\ [][Next]_vars

\* the thread keeps running, the clock advances, the compositor wait returns
FairSpec == Init /\ [][Next]_vars /\ WF_vars(Program) /\ WF_vars(Tick)

TypeOK ==
    /\ pc \in RunningPcs \cup {"WinMain", "MainGameEntry", "HandleWindows",
                               "MainGameExit", "GdiplusShutdown", "Returned",
                               "Aborted", "Crashed"}
    /\ clock \in 0 .. ClockMod - 1
    /\ now \in 0 .. ClockMod - 1
    /\ lastDrawTime \in 0 .. ClockMod - 1
    /\ Len(queue) <= MaxQueue
    /\ exitCalls \in 0 .. 1
    /\ FRAMES_PER_SECOND \in FrameRates

\* ----------------------------------------------------------- SpecApi
\* Game code (inside MainGameEntry, or inside MainGameUpdate once the loop
\* runs) calls the manager API in any order with any arguments, and the OS
\* delivers any message to the window procedure once the window exists.
\* Frame timing is left out: pc stays at "LoopTest" while the loop runs.

GamePcs == {"MainGameEntry", "LoopTest"}

GameCreateManager ==
    /\ pc \in GamePcs
    /\ \E pDisplayBuffer \in BufferPtrs \cup {NULL}, nScale \in ScaleArgs :
         /\ CreateManager(pDisplayBuffer, nScale, pc)
         /\ bound' = Bound(pDisplayBuffer, nScale)
    /\ UNCHANGED <<g_pGDIToken, restOfProgram>>
    /\ UNCHANGED <<loadVars, gfxVars>>

GameDestroyManager ==
    /\ pc \in GamePcs
    /\ DestroyManager(pc)
    /\ bound' = bound
    /\ UNCHANGED <<g_pGDIToken, restOfProgram>>
    /\ UNCHANGED <<loadVars, gfxVars>>

GameRegisterMouse ==
    /\ pc \in GamePcs
    /\ \E pMouseData \in {NULL, MOUSE_PTR} : RegisterMouse(pMouseData, pc)
    /\ bound' = bound
    /\ UNCHANGED <<g_pGDIToken, restOfProgram>>
    /\ UNCHANGED <<loadVars, gfxVars>>

GameGetWidth ==
    /\ pc \in GamePcs
    /\ GetWidth(pc)
    /\ bound' = bound
    /\ UNCHANGED <<g_pGDIToken, restOfProgram>>
    /\ UNCHANGED <<loadVars, gfxVars>>

GameGetHeight ==
    /\ pc \in GamePcs
    /\ GetHeight(pc)
    /\ bound' = bound
    /\ UNCHANGED <<g_pGDIToken, restOfProgram>>
    /\ UNCHANGED <<loadVars, gfxVars>>

GameGetScale ==
    /\ pc \in GamePcs
    /\ GetScale(pc)
    /\ bound' = bound
    /\ UNCHANGED <<g_pGDIToken, restOfProgram>>
    /\ UNCHANGED <<loadVars, gfxVars>>

GamePresent ==
    /\ pc \in GamePcs
    /\ Present(pc)
    /\ bound' = bound
    /\ UNCHANGED <<g_pGDIToken, loopVars, queue, focus, debugBuild,
                   FRAMES_PER_SECOND,
                   updatedThisIter, updateArg, sinceUpdate, iterPending,
                   sinceStamp, afterSkip, exitCalls, gdiShutdown>>
    /\ UNCHANGED <<loadVars, pixels>>

\* the OS calls the window procedure of the existing window: with a
\* message that is not a mouse message,
Deliver ==
    /\ pc = "LoopTest"
    /\ m_hWindow # NULL
    /\ \E m \in WindowMsgs : WndProc(m, pc)
    /\ bound' = bound
    /\ UNCHANGED <<g_pGDIToken, loopVars, envVars, obsVars>>
    /\ UNCHANGED <<loadVars, gfxVars>>

\* or with a mouse message
DeliverMouse ==
    /\ pc = "LoopTest"
    /\ m_hWindow # NULL
    /\ \E m \in DeliveredMsgs \ WindowMsgs : WndProc(m, pc)
    /\ bound' = bound
    /\ UNCHANGED <<g_pGDIToken, loopVars, envVars, obsVars>>
    /\ UNCHANGED <<loadVars, gfxVars>>

NextApi ==
    \/ WinMain \/ EntryReturn \/ HandleWindowsStart
    \/ GameCreateManager \/ GameDestroyManager \/ GameRegisterMouse
    \/ GameGetWidth \/ GameGetHeight \/ GameGetScale \/ GamePresent
    \/ Deliver

SpecApi == Init /\ [][NextApi]_vars

\* --------------------------------------------------------- SpecMouse
\* Game code creating the manager and registering (or not) a MouseData,
\* and the OS delivering any message, mouse messages included.
NextMouse ==
    \/ WinMain \/ EntryReturn \/ HandleWindowsStart
    \/ GameCreateManager \/ GameDestroyManager \/ GameRegisterMouse
    \/ Deliver \/ DeliverMouse

SpecMouse == Init /\ [][NextMouse]_vars

\* ---------------------------------------------------------- SpecLoad
\* The image loaders, called by game code with a file of any kind.

\* Gdiplus::Ok
Ok == 0

\* What Gdiplus::Bitmap::FromFile makes of a file: the status of the
\* decode, and the size of the image.  A bitmap whose status is Ok has
\* been decoded: GetHBITMAP and LockBits on it succeed (the loaders do
\* not look at their results).
Bitmaps == [status : 0 .. MaxStatus, width : 1 .. MaxImage,
            height : 1 .. MaxImage]

GetLastStatus(bitmap) == bitmap.status

\* the pixels LockBits exposes at Scan0, top row first
Scan0(bitmap) == [i \in 1 .. bitmap.width * bitmap.height |-> i]

LoadCall(fn, bitmap) ==
    [fn |-> fn, status |-> bitmap.status, width |-> width,
     height |-> height, destImage |-> destImage]

ReadPNGImage(bitmap, cont) ==
    /\ loadCall' = LoadCall("ReadPNGImage", bitmap)
    /\ IF GetLastStatus(bitmap) # Ok
       THEN /\ loadRet' = -GetLastStatus(bitmap)
            /\ UNCHANGED <<width, height>>
       ELSE /\ width' = bitmap.width
            /\ height' = bitmap.height
            /\ loadRet' = 1
    /\ UNCHANGED destImage
    /\ pc' = cont

LoadPNGImage_sizeFirst(bitmap, cont) ==
    /\ loadCall' = LoadCall("LoadPNGImage", bitmap)
    /\ IF GetLastStatus(bitmap) # Ok
       THEN /\ loadRet' = -GetLastStatus(bitmap)
            /\ destImage' = [destImage EXCEPT !.width = bitmap.width,
                                              !.height = bitmap.height]
       ELSE /\ destImage' = [width |-> bitmap.width,
                             height |-> bitmap.height,
                             pPixels |-> Scan0(bitmap)]
            /\ loadRet' = 1
    /\ UNCHANGED <<width, height>>
    /\ pc' = cont

LoadPNGImage(bitmap, cont) ==
    /\ loadCall' = LoadCall("LoadPNGImage", bitmap)
    /\ IF GetLastStatus(bitmap) # Ok
       THEN /\ loadRet' = -GetLastStatus(bitmap)
            /\ UNCHANGED destImage
       ELSE /\ destImage' = [width |-> bitmap.width,
                             height |-> bitmap.height,
                             pPixels |-> Scan0(bitmap)]
            /\ loadRet' = 1
    /\ UNCHANGED <<width, height>>
    /\ pc' = cont

notLoadVars == <<g_pGDIToken, mgrVars, m_hWindow, mouse, callVars,
                 restOfProgram, gfxVars>>

GameReadPNGImage ==
    /\ pc \in GamePcs
    /\ \E bitmap \in Bitmaps : ReadPNGImage(bitmap, pc)
    /\ UNCHANGED notLoadVars

GameLoadPNGImage ==
    /\ pc \in GamePcs
    /\ \E bitmap \in Bitmaps : LoadPNGImage(bitmap, pc)
    /\ UNCHANGED notLoadVars

NextLoad ==
    \/ WinMain
    \/ GameReadPNGImage
    \/ GameLoadPNGImage

SpecLoad == Init /\ [][NextLoad]_vars

\* ======================================================== properties

\* the frame loop has been told to stop: WM_QUIT was retrieved, or
\* MainGameUpdate returned true
Stopped == msg.message = "WM_QUIT" \/ quit

\* ---- C1: on every path by which HandleWindows returns, MainGameExit has
\* been invoked exactly once, after the last MainGameUpdate and before
\* GdiplusShutdown, and never while the frame loop is Running.
\* (violated: the return taken when CreateWindowW fails)
C1_ExitOnceOnEveryReturn ==
    /\ pc = "Returned" => exitCalls = 1 /\ gdiShutdown
    /\ gdiShutdown => exitCalls = 1
    /\ exitCalls > 0 => pc \notin RunningPcs

\* ---- C2: the frame loop leaves Running only when WM_QUIT has been
\* retrieved or MainGameUpdate has returned true, and once either has
\* happened MainGameUpdate is not invoked again.
C2_LeaveOnlyWhenStopped ==
    [][ /\ (pc \in RunningPcs /\ pc' \notin RunningPcs) => Stopped'
        /\ Stopped => updatedThisIter' <= updatedThisIter ]_vars

C2_Witness ==
    /\ pc = "MainGameExit"
    /\ msg.message = "WM_QUIT"
    /\ ~quit
    /\ sinceUpdate = 1

\* ---- C3: once the window procedure has handled WM_DESTROY (the quit
\* signal), MainGameExit is eventually invoked, whatever MainGameUpdate
\* returns and whether or not the window has the focus.
QuitSignalled ==
    /\ call.op = "WndProc"
    /\ call.msg.message = "WM_DESTROY"
    /\ pc \in RunningPcs

C3_QuitLeadsToExit == QuitSignalled ~> (exitCalls = 1)

C3_Witness ==
    /\ exitCalls = 1
    /\ msg.message = "WM_QUIT"
    /\ ~quit
    /\ ~debugBuild
    /\ focus # m_hWindow
    /\ updatedThisIter = 0

\* ---- C4: every message that is in the queue when an iteration starts has
\* been retrieved and dispatched before MainGameUpdate is invoked in that
\* iteration.  (violated: one PeekMessage per iteration)
C4_DrainedBeforeUpdate == updatedThisIter > 0 => iterPending = 0

\* ---- C5: MainGameUpdate is invoked only when at least one frame interval
\* (1000 / FRAMES_PER_SECOND ms) has elapsed on the counter since the stored
\* timestamp, and its argument is exactly that elapsed time in seconds, so
\* it is never below 1 / FRAMES_PER_SECOND.
\* (sinceStamp counts the counter's ticks independently of now and
\* lastDrawTime)
\* (violated: the argument is static_cast<float>(elapsedTime) / 1000.0f,
\* rounded to single precision twice, so two ticks at 120 Hz with a rate of
\* 60 arrive as 0.0166666657 < 1/60 and four ticks with a rate of 30 as
\* 0.0333333313 < 1/30.  The exit test of the busy-wait is single precision
\* as well, KeepWaiting above: its threshold lies below the exact interval
\* by up to a relative 2^-24, which a counter of tens of MHz can hit and
\* the 120 Hz counter here cannot.)
C5_UpdateAfterInterval ==
    (pc = "Store" /\ updatedThisIter > 0) =>
        /\ sinceStamp * FRAMES_PER_SECOND >= Frequency
        /\ updateArg.m * Frequency = sinceStamp * 2 ^ updateArg.s
        /\ updateArg.m * FRAMES_PER_SECOND >= 2 ^ updateArg.s

\* ---- C6: in a release build an iteration without the focus does not
\* invoke MainGameUpdate but still stores its timestamp, so the first update
\* after the focus returns gets the time since the preceding iteration's
\* timestamp only.
C6_FocusFreeze ==
    /\ [][ /\ (~debugBuild /\ pc = "Update" /\ pc' # pc /\ focus # m_hWindow)
                => (updatedThisIter' = updatedThisIter /\ quit' = quit)
           /\ (pc = "Store" /\ pc' # pc) => lastDrawTime' = now ]_vars
    /\ [](( /\ ~debugBuild
            /\ pc = "Store"
            /\ updatedThisIter > 0
            /\ afterSkip ) => updateArg = UpdateArgument(sinceStamp * 1000))

C6_Witness ==
    /\ ~debugBuild
    /\ pc = "Store"
    /\ updatedThisIter = 1
    /\ afterSkip
    /\ updateArg.m > 0

\* ---- C7: an iteration that retrieves no WM_QUIT runs poll, busy-wait,
\* optional update, timestamp store, compositor wait in this order and the
\* loop test comes only after the wait; MainGameUpdate runs at most once per
\* iteration and a compositor wait completes between two updates.
LoopOrder ==
    {<<"LoopTest", "PeekMessage">>, <<"PeekMessage", "BusyWait">>,
     <<"BusyWait", "Update">>, <<"Update", "Store">>,
     <<"Store", "DwmFlush">>, <<"DwmFlush", "LoopTest">>}

C7_IterationOrder ==
    [][ /\ (pc \in RunningPcs /\ pc' \in RunningPcs /\ pc' # pc)
              => <<pc, pc'>> \in LoopOrder
        /\ updatedThisIter' > updatedThisIter
              => (updatedThisIter = 0 /\ sinceUpdate # 0) ]_vars

C7_Witness ==
    /\ pc = "Store"
    /\ updatedThisIter = 1
    /\ afterSkip = FALSE
    /\ sinceStamp > 0
    /\ lastDrawTime # 0

\* ---- C8: while the manager is not created, HandleWindows, WndProc,
\* Present, RegisterMouse, GetWidth, GetHeight, GetScale and DestroyManager
\* each fail the manager-not-initialised assertion before reading or writing
\* any manager state.
GuardedOps == {"HandleWindows", "WndProc", "Present", "RegisterMouse",
               "GetWidth", "GetHeight", "GetScale", "DestroyManager"}

C8_AssertBeforeUse ==
    /\ []((call.op \in GuardedOps /\ ~call.created)
             => (pc = "Aborted" /\ accessed = {}))
    /\ [][ (pc' = "Aborted" /\ pc # "Aborted")
             => UNCHANGED <<mgrVars, m_hWindow, mouse>> ]_vars

C8_Witness ==
    /\ pc = "Aborted"
    /\ call.op = "WndProc"
    /\ ~call.created
    /\ m_hWindow # NULL
    /\ m_pPlayBuffer # NULL

\* ---- C9: CreateManager with a display buffer and scale > 0 leaves the
\* manager created with that buffer and scale bound, and GetWidth, GetHeight
\* and GetScale then return the buffer's width, its height and the scale;
\* with a null buffer or scale <= 0 it fails its assertion, so a created
\* manager is never bound to an invalid buffer or scale.
C9_CreateBinds ==
    /\ (call.op = "CreateManager" /\ call.buf # NULL /\ call.scale > 0)
          => (pc # "Aborted" /\ m_bCreated /\ m_pPlayBuffer = call.buf
              /\ m_scale = call.scale)
    /\ (call.op = "CreateManager" /\ (call.buf = NULL \/ call.scale <= 0))
          => pc = "Aborted"
    /\ m_bCreated => (m_pPlayBuffer = bound.buf /\ m_scale = bound.scale
                      /\ m_pPlayBuffer # NULL /\ m_scale > 0)
    /\ (call.op = "GetWidth" /\ call.created)
          => ret = BufferWidth(bound.buf)
    /\ (call.op = "GetHeight" /\ call.created)
          => ret = BufferHeight(bound.buf)
    /\ (call.op = "GetScale" /\ call.created) => ret = bound.scale

C9_Witness ==
    /\ call.op = "GetHeight"
    /\ call.created
    /\ bound = [buf |-> 1, scale |-> MaxScale]
    /\ ret = 2
    /\ pc = "LoopTest"

\* ---- C10: a WM_MOUSEMOVE at client pixel (wx, wy) inside the scaled
\* buffer sets the mouse position to x = wx div scale and y = the index,
\* counted from bottom row 0, of the buffer row shown at wy, so that
\* 0 <= x < width and 0 <= y < height.
\* (violated: the code stores height - wy div scale, one row too high)
ShownRow(wy) == BufferHeight(m_pPlayBuffer) - 1 - (wy \div m_scale)

C10_MouseInBuffer ==
    ( /\ call.op = "WndProc"
      /\ call.created
      /\ call.msg.message = "WM_MOUSEMOVE"
      /\ m_pMouseData # NULL
      /\ call.msg.wx >= 0
      /\ call.msg.wx < BufferWidth(m_pPlayBuffer) * m_scale
      /\ call.msg.wy >= 0
      /\ call.msg.wy < BufferHeight(m_pPlayBuffer) * m_scale )
    => /\ mouse.x = call.msg.wx \div m_scale
       /\ mouse.y = ShownRow(call.msg.wy)
       /\ mouse.x >= 0
       /\ mouse.x < BufferWidth(m_pPlayBuffer)
       /\ mouse.y >= 0
       /\ mouse.y < BufferHeight(m_pPlayBuffer)

\* -------------------------------------------------------- SpecPresent
\* Game code creates the manager once, for any of the buffers and any
\* scale from 1, during MainGameEntry or from MainGameUpdate; it draws into
\* that buffer through pPixels, and presents.

\* the colour game code draws with: none of the initial pixel values
Ink == 0

GameCreateDisplay ==
    /\ pc \in GamePcs
    /\ ~m_bCreated
    /\ \E pDisplayBuffer \in DisplayPtrs, nScale \in 1 .. MaxScale :
         /\ CreateManager(pDisplayBuffer, nScale, pc)
         /\ bound' = Bound(pDisplayBuffer, nScale)
    /\ UNCHANGED <<g_pGDIToken, restOfProgram>>
    /\ UNCHANGED <<loadVars, gfxVars>>

GameDraw ==
    /\ pc \in GamePcs
    /\ m_bCreated
    /\ \E x \in 0 .. BufferWidth(m_pPlayBuffer) - 1 :
         \E y \in 0 .. BufferHeight(m_pPlayBuffer) - 1 :
            pixels' = [pixels EXCEPT
                         ![m_pPlayBuffer][PixelIndex(m_pPlayBuffer, x, y)] = Ink]
    /\ call' = Call("GameDraw", NULL, 0, NULL, NoMsg)
    /\ UNCHANGED <<g_pGDIToken, mgrVars, m_hWindow, mouse, pc, ret,
                   accessed, bound, restOfProgram, loadVars, surface>>

NextPresent ==
    \/ WinMain \/ GameCreateDisplay \/ EntryReturn \/ HandleWindowsStart
    \/ GameDraw
    \/ GamePresent

SpecPresent == Init /\ [][NextPresent]_vars

\* ---- C11: when the codec fails to decode the file (the bitmap's status
\* is not Ok), ReadPNGImage and LoadPNGImage return the negated status, a
\* negative value, without crashing, and leave the caller's outputs as
\* they were before the call (width and height for ReadPNGImage; width,
\* height and pixel pointer of destImage for LoadPNGImage); they return 1
\* only when the status was Ok.
C11_FailedDecodeCoded ==
    /\ (loadCall.fn # "none" /\ loadCall.status # Ok)
       => /\ pc # "Crashed"
          /\ loadRet = -loadCall.status
          /\ loadRet < 0
          /\ loadCall.fn = "ReadPNGImage"
             => (width = loadCall.width /\ height = loadCall.height)
          /\ loadCall.fn = "LoadPNGImage"
             => destImage = loadCall.destImage
    /\ (loadCall.fn # "none" /\ loadRet = 1) => loadCall.status = Ok

\* a failed LoadPNGImage after a successful one: the earlier image is kept
C11_Witness ==
    /\ loadCall.fn = "LoadPNGImage"
    /\ loadCall.status = MaxStatus
    /\ loadRet = -MaxStatus
    /\ destImage.pPixels # <<>>
    /\ destImage = loadCall.destImage

\* ---- C12: after Present on a created manager every surface pixel
\* (X, Y), 0 <= X < width*scale, 0 <= Y < height*scale, Y counted from the
\* top, equals display-buffer pixel (X div scale, height - 1 - (Y div scale)),
\* the buffer's y counted from the bottom: a nearest-neighbour
\* magnification by the scale with a vertical flip, covering the whole
\* buffer; Present leaves the display buffer, the scale and the created
\* flag unchanged.
BufferPixel(x, y) == pixels[m_pPlayBuffer][PixelIndex(m_pPlayBuffer, x, y)]

ButtonMessages == {"WM_LBUTTONDOWN", "WM_LBUTTONUP", "WM_RBUTTONDOWN",
                   "WM_RBUTTONUP"}

C13_MouseGuarded ==
    [][ ( /\ pc = "LoopTest"
          /\ call'.op = "WndProc"
          /\ m_bCreated
          /\ call'.msg.message \in MouseMessages )
        => /\ UNCHANGED <<mgrVars, m_hWindow>>
           /\ m_pMouseData = NULL
              => /\ pc' # "Crashed"
                 /\ ret' = 0
                 /\ UNCHANGED mouse
           /\ (m_pMouseData # NULL
               /\ call'.msg.message \in {"WM_LBUTTONDOWN", "WM_LBUTTONUP"})
              => mouse' = [mouse EXCEPT !.left = mouse'.left]
           /\ (m_pMouseData # NULL
               /\ call'.msg.message \in {"WM_RBUTTONDOWN", "WM_RBUTTONUP"})
              => mouse' = [mouse EXCEPT !.right = mouse'.right]
           /\ (m_pMouseData # NULL
               /\ call'.msg.message \notin ButtonMessages)
              => mouse' = [mouse EXCEPT !.x = mouse'.x, !.y = mouse'.y]
      ]_vars

====
